---- MODULE Spec2Model ----
(***************************************************************************)
(* Model of the training harness of src/code/utils.py: the Learner class   *)
(* (construction with log preparation and optional resume, the epoch loop  *)
(* of fit with its exception handler and finally block, checkpoint save    *)
(* and load) together with the three files it owns: the log file, the      *)
(* model checkpoint file and the predictions file.                         *)
(*                                                                         *)
(* Abstractions.  Metric values are integers 0..MaxMet: fit only compares  *)
(* them (utils.py:424, 452-453), so only their order and the value 0       *)
(* (falsy in Python, the initial best_met) matter.  The model weights, the *)
(* optimizer state and the scheduler state are version counters.  A file   *)
(* is a record [state, data]: absent, partial (opened with 'wb', hence     *)
(* truncated, and not completely written) or complete.                     *)
(*                                                                         *)
(* Spec follows construction, fit and loading with each pass over the data *)
(* as one step.  SpecPass follows the training pass and the validation     *)
(* pass batch by batch, with the key lists, the smoothed-value groups, the *)
(* per-batch lists of validate and the log header and rows; values of      *)
(* tensors are records naming the pass, key, epoch and batch they came     *)
(* from.                                                                   *)
(***************************************************************************)
EXTENDS Integers, Sequences, FiniteSets

\* ---------------------------------------------------------------- bounds
MaxEpochs == 4
MaxResumeEpochs == 2
NumBatches == 2
MaxMet == 3
MaxKeys == 2
MaxBatchSize == 2

\* ------------------------------------------------------ Python sentinels
\* a local name of fit that was never assigned (the loop variable `epoch`
\* when range(epochs) is empty)
Unbound == -1
\* met_to_use = None (utils.py:406)
NoneVal == -1
\* an attribute that does not exist yet (self.optimizer before fit)
Unset == -1

VARIABLES
    pc,                     \* position of the program
    cfg,                    \* Learner.cfg
    num_it, num_epoch, best_met,
    mdl, optimizer, lr_scheduler, sched_using_val_metric,
    epochs, epoch, batch_id,
    valid_acc,              \* valid_acc[self.met_keys[0]] of the current epoch
    met_to_use, exception,
    raising,                \* the exception in flight inside fit
    raised,                 \* what the last call raised to its caller
    checkpoint,             \* the file load_model_dict last read (mfile)
    start_it,               \* num_it when fit was called
    sched_steps,            \* the completed lr_scheduler.step calls of this fit
    log_file, model_file, predictions_file,
    ckpt_saves,             \* epochs (num_epoch) of the completed checkpoint writes
    pred_saves,             \* epochs (num_epoch) of the completed predictions writes
    loss_keys, met_keys,    \* self.loss_keys, self.met_keys
    log_keys,               \* self.log_keys, the header of the log
    train_dl,               \* the number of batches of data.train_dl
    valid_dl,               \* the batch sizes of data.valid_dl, in loader order
    trn_loss, trn_acc,      \* the SmoothenDict groups of train_epoch
    train_loss, train_acc,  \* what train_epoch returned
    val_losses, eval_metrics, nums,     \* the lists of validate
    predicted_box_dict_list,
    val_loss, eval_metric,  \* what validate returned
    to_write                \* the row prepare_to_write returned

vars == <<pc, cfg, num_it, num_epoch, best_met, mdl, optimizer, lr_scheduler,
          sched_using_val_metric, epochs, epoch, batch_id, valid_acc,
          met_to_use, exception, raising, raised, checkpoint, start_it,
          sched_steps, log_file, model_file, predictions_file, ckpt_saves, pred_saves,
          loss_keys, met_keys, log_keys, train_dl, valid_dl, trn_loss, trn_acc,
          train_loss, train_acc, val_losses, eval_metrics, nums,
          predicted_box_dict_list, val_loss, eval_metric, to_write>>

learner == <<num_it, num_epoch, best_met, mdl, optimizer, lr_scheduler,
             sched_using_val_metric>>
fitlocals == <<epochs, epoch, batch_id, valid_acc, met_to_use, exception, raising>>
files == <<log_file, model_file, predictions_file, ckpt_saves, pred_saves>>
\* the keys, the loaders and the per-batch state of the two passes
passes == <<loss_keys, met_keys, log_keys, train_dl, valid_dl, trn_loss, trn_acc,
            train_loss, train_acc, val_losses, eval_metrics, nums,
            predicted_box_dict_list, val_loss, eval_metric, to_write>>

\* ------------------------------------------------------------ checkpoints
CkptKeys == {"model_state_dict", "optimizer_state_dict", "scheduler_state_dict",
             "num_it", "num_epoch", "cfgtxt", "best_met"}

\* A checkpoint dictionary: `keys` are the keys it has; a field whose key is
\* missing holds 0 and is never read.
Checkpoint(keys, m, o, s, it, ep, best) ==
    [keys |-> keys, model_state_dict |-> m, optimizer_state_dict |-> o,
     scheduler_state_dict |-> s, num_it |-> it, num_epoch |-> ep, best_met |-> best]

NoData == Checkpoint({}, 0, 0, 0, 0, 0, 0)
AbsentFile == [state |-> "absent", data |-> NoData]
PartialFile == [state |-> "partial", data |-> NoData]
CompleteFile(d) == [state |-> "complete", data |-> d]

\* The checkpoint of an earlier run found at cfg['resume_path']:
\* iteration 5, epoch 2, best metric 2.
OldCheckpoint(keys) ==
    Checkpoint(keys,
               IF "model_state_dict" \in keys THEN 5 ELSE 0,
               IF "optimizer_state_dict" \in keys THEN 5 ELSE 0,
               IF "scheduler_state_dict" \in keys THEN 2 ELSE 0,
               IF "num_it" \in keys THEN 5 ELSE 0,
               IF "num_epoch" \in keys THEN 2 ELSE 0,
               IF "best_met" \in keys THEN 2 ELSE 0)

\* The files a resume path may name: none, a corrupt one, a checkpoint written
\* by save_model_dict, and legacy checkpoints that lack one key.
ResumeFiles ==
    {AbsentFile, PartialFile, CompleteFile(OldCheckpoint(CkptKeys))}
    \cup {CompleteFile(OldCheckpoint(CkptKeys \ {k})) :
            k \in {"num_it", "num_epoch", "best_met", "scheduler_state_dict"}}

\* ------------------------------------------------------------------ config
NoSfn == "absent"
Configs ==
    {c \in [resume : BOOLEAN, resume_path : {"", "ext"}, load_opt : BOOLEAN,
            load_normally : BOOLEAN, del_existing : BOOLEAN,
            sfn : {NoSfn, "ReduceLROnPlateau", "StepLR"}] :
        /\ (~c.resume) => (c.resume_path = "" /\ ~c.load_opt /\ c.load_normally)
        /\ (c.sfn # NoSfn) => ~c.resume
        /\ c.del_existing => ~c.resume}

\* ---------------------------------------------------------------- log file
CfgLine == [kind |-> "cfg", a |-> 0, b |-> 0, e |-> "-"]
BlankLine == [kind |-> "blank", a |-> 0, b |-> 0, e |-> "-"]
HeaderLine == [kind |-> "header", a |-> 0, b |-> 0, e |-> "-"]
PriorLine == [kind |-> "prior", a |-> 0, b |-> 0, e |-> "-"]
\* one row per epoch: the epoch count and the primary validation metric
RowLine(ep, met) == [kind |-> "row", a |-> ep, b |-> met, e |-> "-"]
\* 'epochs done {epoch}. Exited due to exception {exception}. ...'
SummaryLine(ep, exc) == [kind |-> "summary", a |-> ep, b |-> 0, e |-> exc]

NoLog == [exists |-> FALSE, lines |-> <<>>]
PriorLog == [exists |-> TRUE, lines |-> <<PriorLine>>]

\* the log file opened with 'w' instead of 'a'
update_log_file_w(f, towrite) ==
    [exists |-> TRUE, lines |-> <<towrite>>]

\* update_log_file: one line appended (utils.py:189-192)
update_log_file(f, towrite) ==
    [exists |-> TRUE, lines |-> Append(f.lines, towrite)]

\* every log file opened with 'w', an existing one included
prepare_log_file_w(f, c) ==
    IF f.exists /\ c.del_existing
    THEN [raised |-> "AttributeError", log |-> f]
    ELSE [raised |-> "none",
          log |-> [exists |-> TRUE,
                   lines |-> <<CfgLine, BlankLine, HeaderLine>>]]

\* prepare_log_file (utils.py:169-187): [raised, log]
prepare_log_file(f, c) ==
    LET dump(lines) == [exists |-> TRUE,
                        lines |-> lines \o <<CfgLine, BlankLine, HeaderLine>>]
    IN IF f.exists
       THEN IF c.del_existing
            THEN \* self.log_dir is not an attribute of Learner
                 [raised |-> "AttributeError", log |-> f]
            ELSE [raised |-> "none", log |-> dump(f.lines)]
       ELSE [raised |-> "none", log |-> dump(<<>>)]

\* ---------------------------------------------------------------- scheduler
NoScheduler == [inst |-> "unset", steps |-> 0]
\* prepare_scheduler: [sched_using_val_metric, lr_scheduler]
prepare_scheduler(c) ==
    IF c.sfn # NoSfn
    THEN [sched_using_val_metric |-> (c.sfn = "ReduceLROnPlateau"),
          lr_scheduler |-> [inst |-> "class", steps |-> 0]]
    ELSE [sched_using_val_metric |-> FALSE,
          lr_scheduler |-> [inst |-> "LambdaLR", steps |-> 0]]

\* --------------------------------------------------------------- load/save
Learner(it, ep, best, m, o, s, sv) ==
    [num_it |-> it, num_epoch |-> ep, best_met |-> best, mdl |-> m,
     optimizer |-> o, lr_scheduler |-> s, sched_using_val_metric |-> sv]

\* every field is taken from the checkpoint, a missing one read as 0
RestoreFields_nocheck(L, c, ck) ==
    [L EXCEPT !.mdl = IF c.load_normally THEN ck.model_state_dict ELSE @,
              !.num_it = ck.num_it,
              !.num_epoch = ck.num_epoch,
              !.best_met = ck.best_met]

\* The fields load_model_dict restores when their key is present
\* (utils.py:320-331).
RestoreFields(L, c, ck) ==
    [L EXCEPT !.mdl = IF c.load_normally THEN ck.model_state_dict ELSE @,
              !.num_it = IF "num_it" \in ck.keys THEN ck.num_it ELSE @,
              !.num_epoch = IF "num_epoch" \in ck.keys THEN ck.num_epoch ELSE @,
              !.best_met = IF "best_met" \in ck.keys THEN ck.best_met ELSE @]

\* no existence check: opening the missing file raises
LoadMissing_raise(L) == [raised |-> "FileNotFoundError", L |-> L]

\* What load_model_dict does when the file to load does not exist
\* (utils.py:309-312): it logs and returns.
LoadMissing(L) == [raised |-> "none", L |-> L]

\* load_model_dict on Learner fields L with file `mfile` at the chosen path;
\* `oserr`: torch.load raises OSError.  [raised, L]
load_model_dict(L, c, mfile, load_opt, oserr) ==
    IF mfile.state = "absent" THEN LoadMissing(L)
    ELSE IF oserr THEN [raised |-> "OSError", L |-> L]
    ELSE IF mfile.state = "partial" THEN [raised |-> "UnpicklingError", L |-> L]
    ELSE LET ck == mfile.data
             L1 == RestoreFields(L, c, ck)
         IN IF c.load_normally /\ "model_state_dict" \notin ck.keys
            THEN [raised |-> "KeyError", L |-> L]
            ELSE IF ~load_opt THEN [raised |-> "none", L |-> L1]
            ELSE IF "optimizer_state_dict" \notin ck.keys
            THEN \* a fresh optimizer was prepared, its state is not loaded
                 [raised |-> "KeyError", L |-> [L1 EXCEPT !.optimizer = 0]]
            ELSE LET L2 == [L1 EXCEPT !.optimizer = ck.optimizer_state_dict]
                 IN IF "scheduler_state_dict" \in ck.keys
                    THEN \* prepare_scheduler() is called without its
                         \* required argument `opt`
                         [raised |-> "TypeError", L |-> L2]
                    ELSE [raised |-> "none", L |-> L2]

\* the 0-based loop index saved as the epoch count
SaveDict_index(L) ==
    Checkpoint(CkptKeys, L.mdl, L.optimizer, L.lr_scheduler.steps,
               L.num_it, L.num_epoch - 1, L.best_met)

\* The dictionary save_model_dict builds (utils.py:343-351).
SaveDict(L) ==
    Checkpoint(CkptKeys, L.mdl, L.optimizer, L.lr_scheduler.steps,
               L.num_it, L.num_epoch, L.best_met)

CurrentLearner ==
    Learner(num_it, num_epoch, best_met, mdl, optimizer, lr_scheduler,
            sched_using_val_metric)

SetLearner(L) ==
    /\ num_it' = L.num_it
    /\ num_epoch' = L.num_epoch
    /\ best_met' = L.best_met
    /\ mdl' = L.mdl
    /\ optimizer' = L.optimizer
    /\ lr_scheduler' = L.lr_scheduler
    /\ sched_using_val_metric' = L.sched_using_val_metric

\* The file load_model_dict opens: the canonical model file when resume_path
\* is "", the file at the given path otherwise (utils.py:304-307).
ResumeTarget(resume_path, ext) == IF resume_path = "" THEN model_file ELSE ext

\* ------------------------------------------------------------------- Init
\* a dictionary without keys
EmptyDict == [k \in {} |-> 0]

\* The two passes before the first epoch: one loss key and one metric key,
\* nothing computed yet.  Spec follows fit with each pass as one step; the
\* passes are followed batch by batch in SpecPass.
PassesIdle ==
    /\ loss_keys = <<"L1">> /\ met_keys = <<"M1">> /\ log_keys = <<>>
    /\ train_dl = NumBatches /\ valid_dl = <<1>>
    /\ trn_loss = EmptyDict /\ trn_acc = EmptyDict
    /\ train_loss = EmptyDict /\ train_acc = EmptyDict
    /\ val_losses = EmptyDict /\ eval_metrics = EmptyDict /\ nums = <<>>
    /\ predicted_box_dict_list = <<>>
    /\ val_loss = EmptyDict /\ eval_metric = EmptyDict
    /\ to_write = <<>>

DefaultCfg == [resume |-> FALSE, resume_path |-> "", load_opt |-> FALSE,
               load_normally |-> TRUE, del_existing |-> FALSE, sfn |-> NoSfn]

Init ==
    /\ pc = "new"
    /\ cfg = DefaultCfg
    /\ num_it = 0 /\ num_epoch = 0 /\ best_met = 0
    /\ mdl = 0 /\ optimizer = Unset /\ lr_scheduler = NoScheduler
    /\ sched_using_val_metric = FALSE
    /\ epochs = 0 /\ epoch = Unbound /\ batch_id = 0
    /\ valid_acc = 0 /\ met_to_use = NoneVal
    /\ exception = "False" /\ raising = "none" /\ raised = "none"
    /\ checkpoint = AbsentFile /\ start_it = 0 /\ sched_steps = <<>>
    /\ log_file \in {NoLog, PriorLog}
    /\ model_file \in {AbsentFile, CompleteFile(OldCheckpoint(CkptKeys))}
    /\ predictions_file = AbsentFile
    /\ ckpt_saves = <<>> /\ pred_saves = <<>>
    /\ PassesIdle

\* ---------------------------------------------------------- construction
\* Learner.__post_init__ with configuration c; `ext` is the file at
\* resume_path when that is not "", `oserr` the outcome of torch.load.
PostInit(c, ext, oserr) ==
    /\ pc = "new"
    /\ cfg' = c
    /\ LET lg == prepare_log_file(log_file, c)
           fresh == Learner(0, 0, 0, mdl, optimizer, lr_scheduler,
                            sched_using_val_metric)
           ld == IF c.resume
                 THEN load_model_dict(fresh, c, ResumeTarget(c.resume_path, ext),
                                      c.load_opt, oserr)
                 ELSE [raised |-> "none", L |-> fresh]
       IN /\ log_file' = lg.log
          /\ IF lg.raised # "none"
             THEN /\ raised' = lg.raised
                  /\ pc' = "ctor_failed"
                  /\ UNCHANGED <<learner, checkpoint>>
             ELSE /\ raised' = ld.raised
                  /\ checkpoint' = IF c.resume
                                   THEN ResumeTarget(c.resume_path, ext)
                                   ELSE checkpoint
                  /\ pc' = IF ld.raised = "none" THEN "idle" ELSE "ctor_failed"
                  /\ SetLearner(ld.L)
    /\ UNCHANGED <<passes, fitlocals, start_it, sched_steps, model_file, predictions_file, ckpt_saves,
                   pred_saves>>

\* -------------------------------------------------------------------- fit
\* The numbers of epochs fit is called with: long runs for the default
\* configuration on a fresh disk, short runs otherwise.
EpochChoices ==
    IF /\ cfg = DefaultCfg
       /\ log_file.lines[1].kind # "prior"
       /\ model_file.state = "absent"
    THEN 0..MaxEpochs
    ELSE 0..MaxResumeEpochs

\* a handler that records the exception and does not raise it again
ExceptHandler_swallow(e) == [exception |-> e, raising |-> "none"]

\* except Exception as e: exception = e; raise e   (utils.py:442-444)
ExceptHandler(e) == [exception |-> e, raising |-> e]

Raise(e) ==
    /\ exception' = ExceptHandler(e).exception
    /\ raising' = ExceptHandler(e).raising
    /\ pc' = "finally"

\* fit up to the try statement (utils.py:393-408)
Fit(n) ==
    /\ pc = "idle"
    /\ n \in EpochChoices
    /\ epochs' = n
    /\ optimizer' = 0
    /\ lr_scheduler' = prepare_scheduler(cfg).lr_scheduler
    /\ sched_using_val_metric' = prepare_scheduler(cfg).sched_using_val_metric
    /\ exception' = "False"
    /\ met_to_use' = NoneVal
    /\ epoch' = Unbound
    /\ raising' = "none"
    /\ raised' = "none"
    /\ start_it' = num_it
    /\ sched_steps' = <<>>
    /\ pc' = "loop"
    /\ UNCHANGED <<passes, cfg, checkpoint, num_it, num_epoch, best_met, mdl, batch_id,
                   valid_acc, files>>

NextEpoch == IF epoch = Unbound THEN 0 ELSE epoch + 1

\* for epoch in mb: self.num_epoch += 1   (utils.py:411-412)
EpochStart ==
    /\ pc = "loop"
    /\ NextEpoch < epochs
    /\ epoch' = NextEpoch
    /\ num_epoch' = num_epoch + 1
    /\ batch_id' = 0
    /\ pc' = "train"
    /\ UNCHANGED <<passes, cfg, checkpoint, start_it, sched_steps, num_it, best_met, mdl, optimizer, lr_scheduler,
                   sched_using_val_metric, epochs, valid_acc, met_to_use,
                   exception, raising, raised, files>>

\* range(epochs) is exhausted: the try block ends normally
LoopEnd ==
    /\ pc = "loop"
    /\ ~(NextEpoch < epochs)
    /\ pc' = "finally"
    /\ UNCHANGED <<passes, cfg, checkpoint, start_it, sched_steps, learner, fitlocals, raised, files>>

\* the counter restarts with the batches of the epoch
IncrementIt_reset(n) == (n % NumBatches) + 1

\* self.num_it += 1   (utils.py:279)
IncrementIt(n) == n + 1

\* One batch of train_epoch (utils.py:275-296); ok = FALSE: the batch raises
\* after the iteration count was incremented.
TrainBatch(ok) ==
    /\ pc = "train"
    /\ num_it' = IncrementIt(num_it)
    /\ IF ok
       THEN /\ mdl' = mdl + 1
            /\ optimizer' = optimizer + 1
            /\ batch_id' = batch_id + 1
            /\ pc' = IF batch_id + 1 = NumBatches THEN "validate" ELSE "train"
            /\ UNCHANGED <<exception, raising>>
       ELSE /\ Raise("TrainError")
            /\ UNCHANGED <<mdl, optimizer, batch_id>>
    /\ UNCHANGED <<passes, cfg, checkpoint, start_it, sched_steps, num_epoch, best_met, lr_scheduler, sched_using_val_metric,
                   epochs, epoch, valid_acc, met_to_use, raised, files>>

\* validate and valid_acc_to_use = valid_acc[self.met_keys[0]] (utils.py:415-418)
Validate(ok, m) ==
    /\ pc = "validate"
    /\ IF ok
       THEN /\ valid_acc' = m
            /\ pc' = "sched"
            /\ UNCHANGED <<exception, raising>>
       ELSE /\ Raise("ValidError")
            /\ UNCHANGED valid_acc
    /\ UNCHANGED <<passes, cfg, checkpoint, start_it, sched_steps, learner, epochs, epoch, batch_id, met_to_use, raised, files>>

\* The argument of the step call: self.lr_scheduler.step(val_metric) when
\* sched_using_val_metric, self.lr_scheduler.step() otherwise (utils.py:477-480)
StepArgument(uses_metric, val_metric) ==
    IF uses_metric THEN val_metric ELSE NoneVal

\* scheduler_step (utils.py:420, 476-481).  With 'sfn' in cfg lr_scheduler is
\* the scheduler class itself, and calling step on it raises TypeError.
SchedulerStep(ok) ==
    /\ pc = "sched"
    /\ IF lr_scheduler.inst = "class"
       THEN /\ Raise("TypeError")
            /\ UNCHANGED <<lr_scheduler, sched_steps>>
       ELSE IF ok
            THEN /\ lr_scheduler' = [lr_scheduler EXCEPT !.steps = @ + 1]
                 /\ sched_steps' =
                        Append(sched_steps,
                               [epoch |-> num_epoch,
                                arg |-> StepArgument(sched_using_val_metric,
                                                     valid_acc)])
                 /\ pc' = "decide"
                 /\ UNCHANGED <<exception, raising>>
            ELSE /\ Raise("SchedError")
                 /\ UNCHANGED <<lr_scheduler, sched_steps>>
    /\ UNCHANGED <<passes, cfg, checkpoint, start_it, num_it, num_epoch, best_met, mdl, optimizer,
                   sched_using_val_metric, epochs, epoch, batch_id, valid_acc,
                   met_to_use, raised, files>>

\* every metric that differs from the best one counted as an improvement
Improved_any(best, met) == best # met

\* a tie counted as an improvement
Improved_tie(best, met) == best <= met

\* if self.best_met < met_to_use   (utils.py:424)
Improved(best, met) == best < met

\* met_to_use = valid_acc[...]; if self.best_met < met_to_use:
\*     self.best_met = met_to_use   (utils.py:423-425)
Decide ==
    /\ pc = "decide"
    /\ met_to_use' = valid_acc
    /\ IF Improved(best_met, valid_acc)
       THEN /\ best_met' = valid_acc
            /\ pc' = "save"
       ELSE /\ UNCHANGED best_met
            /\ pc' = "logrow"
    /\ UNCHANGED <<passes, cfg, checkpoint, start_it, sched_steps, num_it, num_epoch, mdl, optimizer, lr_scheduler,
                   sched_using_val_metric, epochs, epoch, batch_id, valid_acc,
                   exception, raising, raised, files>>

\* What self.model_file.open('wb') leaves of the file (utils.py:352)
OpenForWrite(f) == PartialFile

\* save_model_dict, first half: the dictionary is built and the model file is
\* opened with 'wb' (utils.py:343-352); ok = FALSE: one of the two raises.
SaveOpen(ok) ==
    /\ pc = "save"
    /\ IF ok
       THEN /\ model_file' = OpenForWrite(model_file)
            /\ pc' = "save_write"
            /\ UNCHANGED <<exception, raising>>
       ELSE /\ Raise("SaveError")
            /\ UNCHANGED model_file
    /\ UNCHANGED <<passes, cfg, checkpoint, start_it, sched_steps, learner, epochs, epoch, batch_id, valid_acc, met_to_use,
                   raised, log_file, predictions_file, ckpt_saves, pred_saves>>

\* save_model_dict, second half: torch.save writes the dictionary
\* (utils.py:352); ok = FALSE: it raises part-way.
SaveWrite(ok) ==
    /\ pc = "save_write"
    /\ IF ok
       THEN /\ model_file' = CompleteFile(SaveDict(CurrentLearner))
            /\ ckpt_saves' = Append(ckpt_saves, num_epoch)
            /\ pc' = "pred"
            /\ UNCHANGED <<exception, raising>>
       ELSE /\ Raise("SaveError")
            /\ UNCHANGED <<model_file, ckpt_saves>>
    /\ UNCHANGED <<passes, cfg, checkpoint, start_it, sched_steps, learner, epochs, epoch, batch_id, valid_acc, met_to_use,
                   raised, log_file, predictions_file, pred_saves>>

\* The predictions file holds the validation predictions of one epoch.
Predictions(ep) == [NoData EXCEPT !.num_epoch = ep]

\* update_prediction_file (utils.py:354-355, 427); out = "open": open('wb')
\* raises, out = "dump": pickle.dump raises on the truncated file.
UpdatePredictionFile(out) ==
    /\ pc = "pred"
    /\ CASE out = "ok" ->
              /\ predictions_file' = CompleteFile(Predictions(num_epoch))
              /\ pred_saves' = Append(pred_saves, num_epoch)
              /\ pc' = "logrow"
              /\ UNCHANGED <<exception, raising>>
         [] out = "open" ->
              /\ Raise("PredError")
              /\ UNCHANGED <<predictions_file, pred_saves>>
         [] out = "dump" ->
              /\ Raise("PredError")
              /\ predictions_file' = OpenForWrite(predictions_file)
              /\ UNCHANGED pred_saves
    /\ UNCHANGED <<passes, cfg, checkpoint, start_it, sched_steps, learner, epochs, epoch, batch_id, valid_acc, met_to_use,
                   raised, log_file, model_file, ckpt_saves>>

\* prepare_to_write and update_log_file (utils.py:429-440)
LogRow(ok) ==
    /\ pc = "logrow"
    /\ IF ok
       THEN /\ log_file' = update_log_file(log_file, RowLine(num_epoch, valid_acc))
            /\ pc' = "loop"
            /\ UNCHANGED <<exception, raising>>
       ELSE /\ Raise("LogError")
            /\ UNCHANGED log_file
    /\ UNCHANGED <<passes, cfg, checkpoint, start_it, sched_steps, learner, epochs, epoch, batch_id, valid_acc, met_to_use,
                   raised, model_file, predictions_file, ckpt_saves, pred_saves>>

\* if met_to_use: if self.best_met < met_to_use:   (utils.py:452-453)
FinalSaveDue(met, best) == met # NoneVal /\ met # 0 /\ best < met

\* What fit raises to its caller when the finally block ended normally: the
\* exception in flight, if any.
Propagate(e) == e

\* The finally block (utils.py:445-454).  The summary string reads the loop
\* variable `epoch`, which is unbound when range(epochs) was empty.
Finalize ==
    /\ pc = "finally"
    /\ pc' = "exited"
    /\ IF epoch = Unbound
       THEN /\ raised' = "UnboundLocalError"
            /\ UNCHANGED <<log_file, model_file, ckpt_saves>>
       ELSE /\ log_file' = update_log_file(log_file, SummaryLine(epoch, exception))
            /\ IF FinalSaveDue(met_to_use, best_met)
               THEN \E out \in {"ok", "open", "dump"} :
                      CASE out = "ok" ->
                             /\ model_file' = CompleteFile(SaveDict(CurrentLearner))
                             /\ ckpt_saves' = Append(ckpt_saves, num_epoch)
                             /\ raised' = Propagate(raising)
                        [] out = "open" ->
                             /\ raised' = "SaveError"
                             /\ UNCHANGED <<model_file, ckpt_saves>>
                        [] out = "dump" ->
                             /\ model_file' = OpenForWrite(model_file)
                             /\ raised' = "SaveError"
                             /\ UNCHANGED ckpt_saves
               ELSE /\ raised' = Propagate(raising)
                    /\ UNCHANGED <<model_file, ckpt_saves>>
    /\ UNCHANGED <<passes, cfg, checkpoint, start_it, sched_steps, learner, fitlocals, predictions_file, pred_saves>>

\* The files at another path that a later load_model_dict call is given:
\* legacy checkpoints that lack one of the run-state keys.
LegacyFiles ==
    {CompleteFile(OldCheckpoint(CkptKeys \ {k})) :
        k \in {"num_it", "num_epoch", "best_met"}}

\* A call of load_model_dict (load_opt = False) on the Learner after fit has
\* exited: of the canonical model file (path "") or of the file `ext`.
LoadCall(path, ext, oserr) ==
    /\ pc = "exited"
    /\ LET ld == load_model_dict(CurrentLearner, cfg, ResumeTarget(path, ext),
                                 FALSE, oserr)
       IN /\ SetLearner(ld.L)
          /\ raised' = ld.raised
    /\ checkpoint' = ResumeTarget(path, ext)
    /\ pc' = "reloaded"
    /\ UNCHANGED <<passes, cfg, start_it, sched_steps, fitlocals, files>>

Next ==
    \/ \E c \in Configs, ext \in ResumeFiles, oserr \in BOOLEAN : PostInit(c, ext, oserr)
    \/ \E n \in 0..MaxEpochs : Fit(n)
    \/ EpochStart
    \/ LoopEnd
    \/ \E ok \in BOOLEAN : TrainBatch(ok)
    \/ \E ok \in BOOLEAN, m \in 0..MaxMet : Validate(ok, m)
    \/ \E ok \in BOOLEAN : SchedulerStep(ok)
    \/ Decide
    \/ \E ok \in BOOLEAN : SaveOpen(ok)
    \/ \E ok \in BOOLEAN : SaveWrite(ok)
    \/ \E out \in {"ok", "open", "dump"} : UpdatePredictionFile(out)
    \/ \E ok \in BOOLEAN : LogRow(ok)
    \/ Finalize
    \/ \E path \in {"", "ext"}, ext \in LegacyFiles : LoadCall(path, ext, FALSE)

Spec == Init /\ [][Next]_vars

\* ============================================= the passes, batch by batch
LossKeyNames == {"L1", "L2"}
MetKeyNames == {"M1", "M2"}
\* the ordered key lists of a loss function or of an evaluation function
KeyLists(names) == UNION {[1..n -> names] : n \in 0..MaxKeys}
\* the validation loaders: up to NumBatches batches of 1..MaxBatchSize examples
ValidLoaders == UNION {[1..n -> 1..MaxBatchSize] : n \in 0..NumBatches}

Range(seq) == {seq[i] : i \in 1..Len(seq)}

RECURSIVE Concat(_)
Concat(seqs) ==
    IF seqs = <<>> THEN <<>> ELSE Head(seqs) \o Concat(Tail(seqs))

RECURSIVE SumSeq(_)
SumSeq(seq) == IF seq = <<>> THEN 0 ELSE Head(seq) + SumSeq(Tail(seq))

\* the column name 'epochs' and the column name f'{p}_{key}'
EpochsKey == <<"epochs">>
LogKey(p, key) == <<p, key>>

\* the loop over the prefixes outside the loop over the keys
prepare_log_keys_by_prefix(keys_list, prefix) ==
    LET keys == Concat(keys_list)
    IN Concat([j \in 1..Len(prefix) |->
                 [i \in 1..Len(keys) |-> LogKey(prefix[j], keys[i])]])

\* prepare_log_keys (utils.py:156-167): for keys in keys_list, for key in
\* keys, one name per prefix
prepare_log_keys(keys_list, prefix) ==
    LET keys == Concat(keys_list)
    IN Concat([i \in 1..Len(keys) |->
                 [j \in 1..Len(prefix) |-> LogKey(prefix[j], keys[i])]])

\* SmoothenValue.__init__ (utils.py:39-41): n = 0.  mov_avg and smooth are
\* functions of the values added so far, which `hist` keeps in order.
SmoothenValue == [n |-> 0, hist |-> <<>>]

\* a value added without counting it
add_value_nocount(sv, val) == [n |-> sv.n, hist |-> Append(sv.hist, val)]

\* SmoothenValue.add_value (utils.py:43-48)
add_value(sv, val) == [n |-> sv.n + 1, hist |-> Append(sv.hist, val)]

\* SmoothenDict.__init__ (utils.py:54-56)
SmoothenDict(keys) == [k \in Range(keys) |-> SmoothenValue]

\* SmoothenDict.add_value (utils.py:58-60)
add_value_dict(sd, val) == [k \in DOMAIN sd |-> add_value(sd[k], val[k])]

\* SmoothenDict.smooth (utils.py:62-64)
smooth(sd) == [k \in DOMAIN sd |-> [smooth_of |-> sd[k].hist, n |-> sd[k].n]]

\* What loss_fn(out, batch) and eval_fn(out, batch) return for batch b of
\* pass `src` in epoch ep: one value per key.
BatchOut(src, keys, ep, b) ==
    [k \in Range(keys) |-> [src |-> src, key |-> k, epoch |-> ep, batch |-> b]]

\* compute_avg and compute_avg_dict (utils.py:71-83): the average of the
\* values `inp` weighted by `weights`
compute_avg(inp, weights) == [avg_of |-> inp, weights |-> weights]
compute_avg_dict(inp, weights) ==
    [k \in DOMAIN inp |-> compute_avg(inp[k], weights)]

\* prediction_dict of a batch of n examples, the first of which is example
\* `first` of the loader (utils.py:256-260)
PredictionDict(first, n) ==
    [id |-> [j \in 1..n |-> first + j - 1],
     pred_boxes |-> [j \in 1..n |-> first + j - 1],
     pred_scores |-> [j \in 1..n |-> first + j - 1]]

\* one record for the whole batch
get_predictions_list_first(predictions) ==
    [ind \in 1..1 |-> [id |-> predictions.id[ind],
                       pred_boxes |-> predictions.pred_boxes[ind],
                       pred_scores |-> predictions.pred_scores[ind]]]

\* get_predictions_list (utils.py:224-230)
get_predictions_list(predictions) ==
    [ind \in 1..Len(predictions.id) |->
        [id |-> predictions.id[ind],
         pred_boxes |-> predictions.pred_boxes[ind],
         pred_scores |-> predictions.pred_scores[ind]]]

\* prepare_to_write (utils.py:365-376), called with all four dictionaries
prepare_to_write(ep, tl, ta, vl, va) ==
    <<ep>>
    \o Concat([j \in 1..Len(loss_keys) |->
                 <<tl[loss_keys[j]], vl[loss_keys[j]]>>])
    \o Concat([j \in 1..Len(met_keys) |->
                 <<ta[met_keys[j]], va[met_keys[j]]>>])

\* what the passes leave alone
passfrozen == <<cfg, best_met, mdl, optimizer, lr_scheduler,
                sched_using_val_metric, valid_acc, met_to_use, exception,
                raising, checkpoint, start_it, sched_steps, files>>

InitPass ==
    /\ pc = "new"
    /\ cfg = DefaultCfg
    /\ num_it = 0 /\ num_epoch = 0 /\ best_met = 0
    /\ mdl = 0 /\ optimizer = Unset /\ lr_scheduler = NoScheduler
    /\ sched_using_val_metric = FALSE
    /\ epochs = 0 /\ epoch = Unbound /\ batch_id = 0
    /\ valid_acc = 0 /\ met_to_use = NoneVal
    /\ exception = "False" /\ raising = "none" /\ raised = "none"
    /\ checkpoint = AbsentFile /\ start_it = 0 /\ sched_steps = <<>>
    /\ log_file = NoLog /\ model_file = AbsentFile
    /\ predictions_file = AbsentFile
    /\ ckpt_saves = <<>> /\ pred_saves = <<>>
    /\ loss_keys \in KeyLists(LossKeyNames)
    /\ met_keys \in KeyLists(MetKeyNames)
    /\ log_keys = <<>>
    /\ train_dl \in 0..NumBatches
    /\ valid_dl \in ValidLoaders
    /\ trn_loss = EmptyDict /\ trn_acc = EmptyDict
    /\ train_loss = EmptyDict /\ train_acc = EmptyDict
    /\ val_losses = EmptyDict /\ eval_metrics = EmptyDict /\ nums = <<>>
    /\ predicted_box_dict_list = <<>>
    /\ val_loss = EmptyDict /\ eval_metric = EmptyDict
    /\ to_write = <<>>

\* __post_init__: self.log_keys (utils.py:113-120)
PostInitKeys ==
    /\ pc = "new"
    /\ log_keys' = <<EpochsKey>>
                   \o prepare_log_keys(<<loss_keys, met_keys>>, <<"trn", "val">>)
    /\ pc' = "built"
    /\ UNCHANGED <<passfrozen, num_it, num_epoch, epochs, epoch, batch_id, raised,
                   loss_keys, met_keys, train_dl, valid_dl, trn_loss, trn_acc,
                   train_loss, train_acc, val_losses, eval_metrics, nums,
                   predicted_box_dict_list, val_loss, eval_metric, to_write>>

\* fit is called for n epochs
FitPass(n) ==
    /\ pc = "built"
    /\ epochs' = n
    /\ epoch' = Unbound
    /\ pc' = "fit"
    /\ UNCHANGED <<passfrozen, num_it, num_epoch, batch_id, raised, passes>>

\* self.num_epoch += 1 and the first lines of train_epoch: two fresh
\* SmoothenDict groups (utils.py:411-412, 270-273)
TrainEpochBegin ==
    /\ pc = "fit"
    /\ NextEpoch < epochs
    /\ epoch' = NextEpoch
    /\ num_epoch' = num_epoch + 1
    /\ trn_loss' = SmoothenDict(loss_keys)
    /\ trn_acc' = SmoothenDict(met_keys)
    /\ batch_id' = 0
    /\ pc' = "trn"
    /\ UNCHANGED <<passfrozen, num_it, epochs, raised, loss_keys, met_keys,
                   log_keys, train_dl, valid_dl, train_loss, train_acc,
                   val_losses, eval_metrics, nums, predicted_box_dict_list,
                   val_loss, eval_metric, to_write>>

\* One batch of train_epoch with its values (utils.py:275-296).  The loss of
\* the first loss key is read at line 285 and the smoothed first metric at
\* line 293: an empty key list raises IndexError there.
TrainBatchData ==
    /\ pc = "trn"
    /\ batch_id < train_dl
    /\ num_it' = IncrementIt(num_it)
    /\ IF loss_keys = <<>>
       THEN /\ raised' = "IndexError"
            /\ pc' = "failed"
            /\ UNCHANGED <<trn_loss, trn_acc, batch_id>>
       ELSE /\ trn_loss' = add_value_dict(trn_loss,
                               BatchOut("trn", loss_keys, num_epoch, batch_id + 1))
            /\ trn_acc' = add_value_dict(trn_acc,
                               BatchOut("trn", met_keys, num_epoch, batch_id + 1))
            /\ IF met_keys = <<>>
               THEN /\ raised' = "IndexError"
                    /\ pc' = "failed"
                    /\ UNCHANGED batch_id
               ELSE /\ batch_id' = batch_id + 1
                    /\ pc' = "trn"
                    /\ UNCHANGED raised
    /\ UNCHANGED <<passfrozen, num_epoch, epochs, epoch, loss_keys, met_keys,
                   log_keys, train_dl, valid_dl, train_loss, train_acc,
                   val_losses, eval_metrics, nums, predicted_box_dict_list,
                   val_loss, eval_metric, to_write>>

\* The end of train_epoch and the first lines of validate (utils.py:297-299,
\* 239-243).  `del batch` raises when the loader had no batch.
TrainEpochEnd ==
    /\ pc = "trn"
    /\ batch_id = train_dl
    /\ IF train_dl = 0
       THEN /\ raised' = "UnboundLocalError"
            /\ pc' = "failed"
            /\ UNCHANGED <<train_loss, train_acc, val_losses, eval_metrics, nums,
                           predicted_box_dict_list>>
       ELSE /\ train_loss' = smooth(trn_loss)
            /\ train_acc' = smooth(trn_acc)
            /\ val_losses' = [k \in Range(loss_keys) |-> <<>>]
            /\ eval_metrics' = [k \in Range(met_keys) |-> <<>>]
            /\ nums' = <<>>
            /\ predicted_box_dict_list' = <<>>
            /\ pc' = "val"
            /\ UNCHANGED raised
    /\ UNCHANGED <<passfrozen, num_it, num_epoch, epochs, epoch, batch_id,
                   loss_keys, met_keys, log_keys, train_dl, valid_dl, trn_loss,
                   trn_acc, val_loss, eval_metric, to_write>>

\* One batch of validate (utils.py:244-262): batch Len(nums) + 1 of the loader
ValidateBatch ==
    /\ pc = "val"
    /\ Len(nums) < Len(valid_dl)
    /\ LET i == Len(nums) + 1
           out_loss == BatchOut("val", loss_keys, num_epoch, i)
           metric == BatchOut("val", met_keys, num_epoch, i)
           prediction_dict == PredictionDict(SumSeq(nums) + 1, valid_dl[i])
       IN /\ val_losses' = [k \in DOMAIN val_losses |->
                               Append(val_losses[k], out_loss[k])]
          /\ eval_metrics' = [k \in DOMAIN eval_metrics |->
                                 Append(eval_metrics[k], metric[k])]
          /\ nums' = Append(nums, valid_dl[i])
          /\ predicted_box_dict_list' =
                 predicted_box_dict_list \o get_predictions_list(prediction_dict)
    /\ UNCHANGED <<passfrozen, pc, num_it, num_epoch, epochs, epoch, batch_id,
                   raised, loss_keys, met_keys, log_keys, train_dl, valid_dl,
                   trn_loss, trn_acc, train_loss, train_acc, val_loss,
                   eval_metric, to_write>>

\* The aggregation of validate (utils.py:263-266).  torch.stack raises
\* RuntimeError on an empty list, that is when the loader had no batch.
ValidateEnd ==
    /\ pc = "val"
    /\ Len(nums) = Len(valid_dl)
    /\ IF nums = <<>>
       THEN /\ raised' = "RuntimeError"
            /\ pc' = "failed"
            /\ UNCHANGED <<val_loss, eval_metric>>
       ELSE /\ val_loss' = compute_avg_dict(val_losses, nums)
            /\ eval_metric' = compute_avg_dict(eval_metrics, nums)
            /\ pc' = "row"
            /\ UNCHANGED raised
    /\ UNCHANGED <<passfrozen, num_it, num_epoch, epochs, epoch, batch_id,
                   loss_keys, met_keys, log_keys, train_dl, valid_dl, trn_loss,
                   trn_acc, train_loss, train_acc, val_losses, eval_metrics, nums,
                   predicted_box_dict_list, to_write>>

\* The row of the epoch (utils.py:429-432, 378); the scheduler step, the
\* decision and the save that precede it are followed in Spec.
WriteRow ==
    /\ pc = "row"
    /\ LET out_list == prepare_to_write(num_epoch, train_loss, train_acc,
                                        val_loss, eval_metric)
       IN IF Len(out_list) = Len(log_keys)
          THEN /\ to_write' = out_list
               /\ pc' = "fit"
               /\ UNCHANGED raised
          ELSE /\ raised' = "AssertionError"
               /\ pc' = "failed"
               /\ UNCHANGED to_write
    /\ UNCHANGED <<passfrozen, num_it, num_epoch, epochs, epoch, batch_id,
                   loss_keys, met_keys, log_keys, train_dl, valid_dl, trn_loss,
                   trn_acc, train_loss, train_acc, val_losses, eval_metrics, nums,
                   predicted_box_dict_list, val_loss, eval_metric>>

NextPass ==
    \/ PostInitKeys
    \/ FitPass(MaxResumeEpochs)
    \/ TrainEpochBegin
    \/ TrainBatchData
    \/ TrainEpochEnd
    \/ ValidateBatch
    \/ ValidateEnd
    \/ WriteRow

SpecPass == InitPass /\ [][NextPass]_vars

\* =================================================================== claims
\* The per-epoch rows of the log file, and the metrics they record.
Rows == SelectSeq(log_file.lines, LAMBDA l : l.kind = "row")
Summaries == SelectSeq(log_file.lines, LAMBDA l : l.kind = "summary")
RowMets == [i \in 1..Len(Rows) |-> Rows[i].b]

\* fit has run every epoch it started to its end and nothing was raised
\* inside the loop
EpochsComplete ==
    \/ pc = "loop"
    \/ pc \in {"finally", "exited", "reloaded"} /\ exception = "False"

\* The epochs (as epoch counts) in which a run recording `rows`, started with
\* best metric `best`, improves strictly on the best metric seen so far.
RECURSIVE ImprovingEpochs(_, _)
ImprovingEpochs(rows, best) ==
    IF rows = <<>> THEN <<>>
    ELSE IF Head(rows).b > best
         THEN <<Head(rows).a>> \o ImprovingEpochs(Tail(rows), Head(rows).b)
         ELSE ImprovingEpochs(Tail(rows), best)

\* C1: in every epoch the decision step goes on to the checkpoint save if and
\* only if the epoch's primary validation metric is strictly greater than
\* best_met (a tie or a regression goes straight to the log row); and in a run
\* of a Learner that was not resumed (best_met starts at 0), once the started
\* epochs are complete, the checkpoint writes and the predictions writes are
\* exactly the epochs whose metric strictly exceeded every earlier one:
\* metrics 2,2,3,1 (the order pattern of 0.5,0.5,0.6,0.4) save in epochs 1, 3.
C1_SaveIffStrictImprovement ==
    /\ [][pc = "decide" =>
            /\ (pc' = "save") <=> (valid_acc > best_met)
            /\ (pc' = "logrow") <=> (valid_acc <= best_met)]_vars
    /\ []((EpochsComplete /\ ~cfg.resume) =>
            /\ ckpt_saves = ImprovingEpochs(Rows, 0)
            /\ pred_saves = ckpt_saves)

C1_Witness ==
    /\ pc = "exited" /\ raised = "none" /\ ~cfg.resume
    /\ RowMets = <<2, 2, 3, 1>>
    /\ ckpt_saves = <<1, 3>> /\ pred_saves = <<1, 3>>

\* C2: whenever fit has exited, by return or by exception, and for every
\* number of epochs, exactly one trailing summary line was appended to the log
\* file.  (The log holds no summary line before fit.)
C2_OneSummaryLine ==
    pc = "exited" => Len(Summaries) = 1

\* C3: when an exception was raised inside the epoch loop, what fit raises to
\* its caller after the finally block is that same exception: fit does not
\* return normally and does not raise another error.  The summary line was
\* written first and names the exception.
C3_OriginalExceptionReraised ==
    (pc = "exited" /\ epoch # Unbound /\ Len(Summaries) = 1
        /\ Summaries[1].e # "False")
    => /\ raised = Summaries[1].e
       /\ raised = exception
       /\ raised \in {"TrainError", "ValidError", "SchedError", "TypeError",
                      "SaveError", "PredError", "LogError"}

\* an exception raised in the training pass of the second epoch has reached
\* the caller, after the summary line 'epochs done 1'
C3_Witness ==
    /\ pc = "exited" /\ raised = "TrainError" /\ exception = "TrainError"
    /\ epoch = 1 /\ Len(Rows) = 1
    /\ Summaries = <<SummaryLine(1, "TrainError")>>

\* The epoch's metric was computed and exceeded the last-saved best metric,
\* and the epoch raised before its checkpoint save completed.
RaisedBeforeSaveCompleted ==
    /\ \/ exception \in {"SchedError", "TypeError"} /\ valid_acc > best_met
       \/ exception = "SaveError"
    /\ model_file.state = "complete" => model_file.data.best_met < valid_acc

\* C4: if an epoch raises after its metric was computed and exceeded the
\* last-saved best metric but before its checkpoint save completed, then after
\* fit has exited the checkpoint on disk records that epoch's improvement.
C4_FinalSavePersistsImprovement ==
    (pc = "exited" /\ RaisedBeforeSaveCompleted)
    => /\ model_file.state = "complete"
       /\ model_file.data.num_epoch = num_epoch
       /\ model_file.data.best_met = valid_acc

\* C5: at every point the canonical checkpoint file holds a complete
\* checkpoint (the previous one or the new one) or does not exist yet; it is
\* never empty or partially written.
C5_CheckpointWriteAtomic ==
    model_file.state \in {"absent", "complete"}

Last(seq) == seq[Len(seq)]

\* C6 as stated: whenever fit has exited after completing at least one epoch,
\* the checkpoint on disk records the num_it and num_epoch the Learner holds.
C6_RunStatePersistedAtExit ==
    (pc = "exited" /\ Len(Rows) >= 1)
    => /\ model_file.state = "complete"
       /\ model_file.data.num_it = num_it
       /\ model_file.data.num_epoch = num_epoch

\* C6 amended: the checkpoint is written only by an epoch that improves the
\* metric.  Whenever fit has exited and the checkpoint save of the last epoch
\* it started completed, the checkpoint on disk records the num_it and
\* num_epoch the Learner holds at exit; otherwise a complete checkpoint written
\* by this fit still records the epoch count of the epoch that last saved.
C6_RunStatePersistedByLastSave ==
    (pc = "exited" /\ ckpt_saves # <<>>)
    => /\ (Last(ckpt_saves) = num_epoch =>
              /\ model_file.state = "complete"
              /\ model_file.data.num_it = num_it
              /\ model_file.data.num_epoch = num_epoch)
       /\ (model_file.state = "complete" =>
              /\ model_file.data.num_epoch = Last(ckpt_saves)
              /\ model_file.data.num_epoch <= num_epoch
              /\ model_file.data.num_it <= num_it)

\* a run of three epochs whose last epoch saved, and exited normally
C6_Witness ==
    /\ pc = "exited" /\ raised = "none" /\ epochs = 3
    /\ ckpt_saves = <<1, 3>> /\ num_epoch = 3
    /\ model_file.state = "complete" /\ model_file.data.num_epoch = 3
    /\ model_file.data.num_it = 3 * NumBatches

\* C7: num_it changes inside fit only in a training batch, and there by
\* exactly +1 (train_epoch, validate and fit never reset or decrease it; only
\* load_model_dict assigns it); a fit of `epochs` epochs over NumBatches
\* batches that returns normally ends with num_it = start_it + epochs *
\* NumBatches, whatever start_it was, a value restored from a checkpoint
\* included.
C7_IterationCounter ==
    /\ [][pc = "train" => num_it' = num_it + 1]_vars
    /\ [][pc \notin {"train", "new", "exited"} => num_it' = num_it]_vars
    /\ []((pc = "exited" /\ raised = "none")
            => num_it = start_it + epochs * NumBatches)

\* two epochs after a resume that restored num_it = 5
C7_Witness ==
    /\ pc = "exited" /\ raised = "none" /\ cfg.resume
    /\ checkpoint.state = "complete" /\ checkpoint.data.num_it = 5
    /\ start_it = 5 /\ epochs = 2 /\ num_it = 5 + 2 * NumBatches

StrictlyIncreasing(seq) ==
    \A i \in 1..Len(seq) : /\ seq[i] > 0
                           /\ i > 1 => seq[i - 1] < seq[i]

\* C8: a run of fit on a Learner that was not resumed, which returns normally
\* after N = epochs epochs whose recorded metrics are positive and strictly
\* increasing, has written exactly N checkpoints, and its log ends with exactly
\* N rows (epoch counts 1..N) followed by the one summary line; num_epoch = N.
C8_EndToEnd ==
    (pc = "exited" /\ raised = "none" /\ ~cfg.resume /\ StrictlyIncreasing(RowMets))
    => LET lines == log_file.lines
           k == Len(lines)
       IN /\ Len(ckpt_saves) = epochs
          /\ Len(Rows) = epochs
          /\ Len(Summaries) = 1
          /\ k >= epochs + 1
          /\ lines[k].kind = "summary"
          /\ \A i \in 1..epochs : /\ lines[k - 1 - epochs + i].kind = "row"
                                  /\ lines[k - 1 - epochs + i].a = i
          /\ lines[k - 1 - epochs].kind = "header"
          /\ num_epoch = epochs

\* the two-epoch run
C8_Witness ==
    /\ pc = "exited" /\ raised = "none" /\ ~cfg.resume /\ epochs = 2
    /\ RowMets = <<1, 2>>
    /\ ckpt_saves = <<1, 2>> /\ num_epoch = 2
    /\ Len(Summaries) = 1 /\ Last(log_file.lines).kind = "summary"

RunStateKeys == {"num_it", "num_epoch", "best_met"}

\* C9: a completed save_model_dict leaves a complete file that has the three
\* keys and records num_it, num_epoch and best_met as they are at the save; a
\* load_model_dict (without optimizer loading) of a complete file that returns
\* sets each of the three fields to the file's value when the file has the key
\* and leaves the field as it was when the key is missing (at construction:
\* as set to 0 just before).  So a save followed by a load of the same file
\* restores the three values of the save.
C9_CheckpointRoundTrip ==
    /\ [][(pc = "save_write" /\ pc' = "pred") =>
            /\ model_file'.state = "complete"
            /\ RunStateKeys \subseteq model_file'.data.keys
            /\ model_file'.data.num_it = num_it
            /\ model_file'.data.num_epoch = num_epoch
            /\ model_file'.data.best_met = best_met]_vars
    /\ [][(pc = "exited" /\ pc' = "reloaded" /\ raised' = "none"
             /\ checkpoint'.state = "complete") =>
            LET ck == checkpoint'.data
            IN /\ num_it' = IF "num_it" \in ck.keys THEN ck.num_it ELSE num_it
               /\ num_epoch' = IF "num_epoch" \in ck.keys THEN ck.num_epoch
                               ELSE num_epoch
               /\ best_met' = IF "best_met" \in ck.keys THEN ck.best_met
                              ELSE best_met]_vars
    /\ [][(pc = "new" /\ pc' = "idle" /\ cfg'.resume
             /\ checkpoint'.state = "complete") =>
            LET ck == checkpoint'.data
            IN /\ num_it' = IF "num_it" \in ck.keys THEN ck.num_it ELSE 0
               /\ num_epoch' = IF "num_epoch" \in ck.keys THEN ck.num_epoch ELSE 0
               /\ best_met' = IF "best_met" \in ck.keys THEN ck.best_met ELSE 0]_vars
    /\ []((pc = "reloaded" /\ raised = "none" /\ checkpoint = model_file
             /\ model_file.state = "complete" /\ ckpt_saves # <<>>) =>
            /\ num_epoch = Last(ckpt_saves)
            /\ \A i \in 1..Len(Rows) :
                  Rows[i].a = Last(ckpt_saves) => best_met = Rows[i].b)

\* the checkpoint saved in epoch 1 (metric 2) of a four-epoch run is loaded
\* after the run: the Learner is back at epoch 1, iteration NumBatches, best 2
C9_Witness ==
    /\ pc = "reloaded" /\ raised = "none" /\ checkpoint = model_file
    /\ epochs = 4 /\ ckpt_saves = <<1>> /\ RowMets = <<2, 2, 1, 0>>
    /\ num_epoch = 1 /\ num_it = NumBatches /\ best_met = 2

\* C10: construction with resume set and no file at the resume path does not
\* raise: the Learner is constructed with num_it = 0, num_epoch = 0,
\* best_met = 0 and the model, optimizer and scheduler as they were; a
\* construction in which anything is raised (a corrupt file always raises)
\* ends without a Learner, and nothing runs after it.
C10_ResumeMissingOrFail ==
    /\ [][(pc = "new" /\ cfg'.resume /\ raised' # "AttributeError"
             /\ checkpoint'.state = "absent") =>
            /\ pc' = "idle" /\ raised' = "none"
            /\ num_it' = 0 /\ num_epoch' = 0 /\ best_met' = 0
            /\ mdl' = mdl /\ optimizer' = optimizer
            /\ lr_scheduler' = lr_scheduler]_vars
    /\ [][(pc = "new" /\ cfg'.resume /\ checkpoint'.state = "partial") =>
            raised' # "none"]_vars
    /\ [][pc = "new" => (pc' = "ctor_failed" <=> raised' # "none")]_vars
    /\ [][pc = "ctor_failed" => FALSE]_vars

\* after a resume from a path with no file, a run from scratch completed
C10_Witness ==
    /\ pc = "exited" /\ raised = "none" /\ cfg.resume
    /\ cfg.resume_path = "ext" /\ checkpoint.state = "absent"
    /\ start_it = 0 /\ epochs = 2 /\ num_epoch = 2 /\ Len(Rows) = 2

\* C11: a construction over an existing log file with del_existing set
\* succeeds, and afterwards the log file holds only the new configuration
\* dump, the blank line and the header row: the prior content is gone.
C11_DeleteExistingLog ==
    [][(pc = "new" /\ log_file.exists /\ cfg'.del_existing)
        => /\ pc' = "idle" /\ raised' = "none"
           /\ log_file'.lines = <<CfgLine, BlankLine, HeaderLine>>]_vars

IsPrefix(s, t) == Len(s) <= Len(t) /\ SubSeq(t, 1, Len(s)) = s

\* C12: the log file is append-only.  In every step other than a construction
\* with del_existing set over an existing log (construction, row write,
\* summary write and every other step of fit and of loading), the content
\* the log file had before the step is a prefix of its content after it.
C12_LogAppendOnly ==
    [][~(pc = "new" /\ log_file.exists /\ cfg'.del_existing)
        => IsPrefix(log_file.lines, log_file'.lines)]_vars

\* a Learner constructed over a prior log ran two epochs: the prior line is
\* still first, followed by the dump, two rows and the summary line
C12_Witness ==
    /\ pc = "exited" /\ raised = "none" /\ ~cfg.del_existing
    /\ log_file.lines[1] = PriorLine
    /\ Len(log_file.lines) = 7
    /\ Len(Rows) = 2 /\ Len(Summaries) = 1
    /\ Last(log_file.lines).kind = "summary"

\* C14: the summary line records the number of epochs that ran to completion
\* (an epoch is complete when its log row is written): 'epochs done 1' when
\* the training pass of epoch 2 raises, and likewise the number of completed
\* epochs when fit completes all its epochs.
C14_SummaryRecordsCompletedEpochs ==
    (pc = "exited" /\ Len(Summaries) = 1 /\ exception \in {"False", "TrainError"})
    => Summaries[1].a = Len(Rows)

\* the positions of fit inside one epoch, after the scheduler step
AfterSchedulerStep == {"decide", "save", "save_write", "pred", "logrow"}

\* C15: the steps of an epoch follow one another in the fixed order (count
\* increment, training, validation, scheduler step, decision and save with
\* predictions, log row); an epoch that reaches the scheduler step steps the
\* scheduler, unless the scheduler's own step fails, so that past the step
\* position exactly one step per started epoch was made, the last one in this
\* epoch and with the epoch's primary validation metric as argument iff the
\* configured scheduler is ReduceLROnPlateau (no argument otherwise); and a
\* checkpoint written in an epoch holds the scheduler state after that step.
C15_EpochOrderAndSchedulerStep ==
    /\ [][(pc = "loop" /\ pc' # "finally") =>
            pc' = "train" /\ num_epoch' = num_epoch + 1]_vars
    /\ [][(pc = "train" /\ pc' # "finally") => pc' \in {"train", "validate"}]_vars
    /\ [][(pc = "validate" /\ pc' # "finally") => pc' = "sched"]_vars
    /\ [][pc = "sched" =>
            \/ pc' = "decide" /\ Len(sched_steps') = Len(sched_steps) + 1
            \/ pc' = "finally" /\ exception' = "SchedError"]_vars
    /\ [][(pc = "decide" /\ pc' # "finally") => pc' \in {"save", "logrow"}]_vars
    /\ [][(pc = "save" /\ pc' # "finally") => pc' = "save_write"]_vars
    /\ [][(pc = "save_write" /\ pc' # "finally") =>
            /\ pc' = "pred"
            /\ model_file'.data.scheduler_state_dict = Len(sched_steps)]_vars
    /\ [][(pc = "pred" /\ pc' # "finally") => pc' = "logrow"]_vars
    /\ [][(pc = "logrow" /\ pc' # "finally") => pc' = "loop"]_vars
    /\ [](pc \in AfterSchedulerStep =>
            /\ Len(sched_steps) = epoch + 1
            /\ Last(sched_steps).epoch = num_epoch
            /\ Last(sched_steps).arg =
                  IF cfg.sfn = "ReduceLROnPlateau" THEN valid_acc ELSE NoneVal)
    /\ [](pc = "loop" => Len(sched_steps) = Len(Rows))

\* best_met when fit was called: the value restored at construction from a
\* checkpoint that has the key, 0 otherwise (utils.py:148, 330-331)
StartBest ==
    IF cfg.resume /\ checkpoint.state = "complete"
       /\ "best_met" \in checkpoint.data.keys
    THEN checkpoint.data.best_met
    ELSE 0

MaxOf(S) == CHOOSE x \in S : \A y \in S : y <= x

InFit == {"loop", "train", "validate", "sched", "decide", "save", "save_write",
          "pred", "logrow", "finally"}

\* C18: no step of fit decreases best_met; at the end of every completed
\* epoch (and before the first) best_met is the maximum of its value at the
\* start of fit and the primary validation metrics of the epochs completed so
\* far; and a checkpoint is written only after best_met has exceeded its
\* starting value, so a run whose metrics never exceed it (0 for a fresh
\* Learner) writes none.
C18_BestMetMonotone ==
    /\ [][(pc \in InFit \cup {"idle"}) => best_met' >= best_met]_vars
    /\ [](pc = "loop" =>
            best_met = MaxOf({StartBest} \cup {RowMets[i] : i \in 1..Len(Rows)}))
    /\ [](pc = "idle" => best_met = StartBest)
    /\ []((pc \in (InFit \cup {"exited"}) /\ ckpt_saves # <<>>) =>
            /\ best_met > StartBest
            /\ best_met = valid_acc \/ \E i \in 1..Len(Rows) : RowMets[i] = best_met)
    /\ []((pc \in (InFit \cup {"exited"}) /\ valid_acc <= StartBest
            /\ \A i \in 1..Len(Rows) : RowMets[i] <= StartBest) =>
            /\ ckpt_saves = <<>>
            /\ pc \notin {"save", "save_write", "pred"})

\* a Learner resumed with best metric 2 ran two epochs with metrics 2 and 3:
\* only the second one (epoch count 4) raised best_met and saved
C18_Witness ==
    /\ pc = "exited" /\ raised = "none" /\ cfg.resume /\ StartBest = 2
    /\ RowMets = <<2, 3>> /\ best_met = 3 /\ ckpt_saves = <<4>>

\* the positions of fit inside the checkpointing step of an epoch
Checkpointing == {"save", "save_write", "pred"}

\* C19: whenever fit is outside the checkpointing step, and after it has
\* exited by any path, the checkpoint file and the predictions file were last
\* written in the same epoch (neither of them if fit wrote none), and if
\* best_met was raised in this run the checkpoint file is complete and
\* records the Learner's best_met.
C19_ArtifactsConsistent ==
    (pc \in (InFit \cup {"exited"}) \ Checkpointing)
    => /\ (ckpt_saves = <<>>) <=> (pred_saves = <<>>)
       /\ ckpt_saves # <<>> =>
             /\ Last(ckpt_saves) = Last(pred_saves)
             /\ model_file.state = "complete"
             /\ predictions_file.state = "complete"
             /\ model_file.data.num_epoch = predictions_file.data.num_epoch
       /\ best_met > StartBest =>
             /\ model_file.state = "complete"
             /\ model_file.data.best_met = best_met

\* C20: a construction that resumes with load_opt from a readable checkpoint
\* holding optimizer and scheduler state yields a Learner whose optimizer and
\* scheduler carry that state; and at the first training iteration of the
\* following fit the optimizer (and the scheduler, where the checkpoint has
\* its state) still carry the restored state.
C20_RestoredOptimizerInEffect ==
    /\ [][(pc = "new" /\ cfg'.resume /\ cfg'.load_opt
             /\ checkpoint'.state = "complete"
             /\ {"model_state_dict", "optimizer_state_dict",
                 "scheduler_state_dict"} \subseteq checkpoint'.data.keys
             /\ raised' # "OSError") =>
            /\ pc' = "idle"
            /\ optimizer' = checkpoint'.data.optimizer_state_dict
            /\ lr_scheduler'.steps = checkpoint'.data.scheduler_state_dict]_vars
    /\ []((pc = "train" /\ epoch = 0 /\ batch_id = 0
             /\ cfg.resume /\ cfg.load_opt /\ checkpoint.state = "complete"
             /\ "optimizer_state_dict" \in checkpoint.data.keys) =>
            /\ optimizer = checkpoint.data.optimizer_state_dict
            /\ "scheduler_state_dict" \in checkpoint.data.keys =>
                  lr_scheduler.steps = checkpoint.data.scheduler_state_dict)

\* the number of loss columns of the header
LossCols == 2 * Len(loss_keys)

\* The value that belongs in column i >= 2 of a row: the training value of
\* the column's key for a 'trn' column, its validation value for a 'val'
\* column; of a loss key in the loss columns, of a metric key after them.
ColumnValue(i) ==
    LET p == log_keys[i][1]
        key == log_keys[i][2]
    IN IF i <= 1 + LossCols
       THEN IF p = "trn" THEN train_loss[key] ELSE val_loss[key]
       ELSE IF p = "trn" THEN train_acc[key] ELSE eval_metric[key]

\* C13 (SpecPass): for every ordered list of loss keys and of metric keys the
\* header is 'epochs', then trn_k, val_k for every loss key k in order, then
\* trn_k, val_k for every metric key k in order; and every row built by
\* prepare_to_write is as long as the header, starts with the epoch count and
\* carries in every other position the value of that position's column.
C13_HeaderAndRowLayout ==
    /\ pc # "new" =>
          /\ Len(log_keys) = 1 + 2 * Len(loss_keys) + 2 * Len(met_keys)
          /\ log_keys[1] = EpochsKey
          /\ \A j \in 1..Len(loss_keys) :
                /\ log_keys[2 * j] = LogKey("trn", loss_keys[j])
                /\ log_keys[2 * j + 1] = LogKey("val", loss_keys[j])
          /\ \A j \in 1..Len(met_keys) :
                /\ log_keys[LossCols + 2 * j] = LogKey("trn", met_keys[j])
                /\ log_keys[LossCols + 2 * j + 1] = LogKey("val", met_keys[j])
    /\ (pc = "fit" /\ epoch # Unbound) =>
          /\ Len(to_write) = Len(log_keys)
          /\ to_write[1] = num_epoch
          /\ \A i \in 2..Len(log_keys) : to_write[i] = ColumnValue(i)

\* loss keys [L1], metric keys [M1]: the header is epochs, trn_L1, val_L1,
\* trn_M1, val_M1 and the row of the second epoch has five entries
C13_Witness ==
    /\ pc = "fit" /\ num_epoch = 2
    /\ loss_keys = <<"L1">> /\ met_keys = <<"M1">>
    /\ log_keys = <<EpochsKey, LogKey("trn", "L1"), LogKey("val", "L1"),
                    LogKey("trn", "M1"), LogKey("val", "M1")>>
    /\ Len(to_write) = 5 /\ to_write[1] = 2
    /\ to_write[2] = train_loss["L1"] /\ to_write[5] = eval_metric["M1"]

\* the value validate collects for key k from batch i in the current epoch
ValToken(k, i) == [src |-> "val", key |-> k, epoch |-> num_epoch, batch |-> i]

\* C16 (SpecPass): validate takes the batches of the loader one at a time in
\* loader order and reaches the aggregation after all B of them; until then
\* and at the aggregation every loss-key list, every metric-key list and the
\* weights list have one entry per batch processed, entry i coming from batch
\* i (B entries at the aggregation, which averages exactly these lists), and
\* the prediction list holds one record per validation example of these
\* batches, in order.
C16_ValidateBatches ==
    /\ [][(pc = "val" /\ pc' = "val") =>
            nums' = Append(nums, valid_dl[Len(nums) + 1])]_vars
    /\ [][(pc = "val" /\ pc' # "val") => Len(nums) = Len(valid_dl)]_vars
    /\ [](pc \in {"val", "row"} =>
            /\ Len(nums) <= Len(valid_dl)
            /\ \A i \in 1..Len(nums) : nums[i] = valid_dl[i]
            /\ \A k \in Range(loss_keys) :
                  /\ Len(val_losses[k]) = Len(nums)
                  /\ \A i \in 1..Len(nums) : val_losses[k][i] = ValToken(k, i)
            /\ \A k \in Range(met_keys) :
                  /\ Len(eval_metrics[k]) = Len(nums)
                  /\ \A i \in 1..Len(nums) : eval_metrics[k][i] = ValToken(k, i)
            /\ Len(predicted_box_dict_list) = SumSeq(nums)
            /\ \A e \in 1..Len(predicted_box_dict_list) :
                  predicted_box_dict_list[e].id = e)
    /\ [](pc = "row" =>
            /\ Len(nums) = Len(valid_dl)
            /\ Len(predicted_box_dict_list) = SumSeq(valid_dl)
            /\ \A k \in Range(loss_keys) :
                  val_loss[k] = compute_avg(val_losses[k], nums)
            /\ \A k \in Range(met_keys) :
                  eval_metric[k] = compute_avg(eval_metrics[k], nums))

\* a loader of two batches, of 2 and 1 examples, and two loss keys
C16_Witness ==
    /\ pc = "row" /\ valid_dl = <<2, 1>> /\ nums = <<2, 1>>
    /\ loss_keys = <<"L1", "L2">>
    /\ Len(val_losses["L2"]) = 2 /\ Len(predicted_box_dict_list) = 3

\* the value train_epoch adds for key k in batch i of the current epoch
TrnToken(k, i) == [src |-> "trn", key |-> k, epoch |-> num_epoch, batch |-> i]

\* the group sd has a member for each of `keys`, each holding exactly the
\* values of the first j batches of the current epoch
GroupAfter(sd, keys, j) ==
    /\ DOMAIN sd = Range(keys)
    /\ \A k \in Range(keys) :
          /\ sd[k].n = j
          /\ Len(sd[k].hist) = j
          /\ \A i \in 1..j : sd[k].hist[i] = TrnToken(k, i)

\* C17 (SpecPass): each call of train_epoch starts with fresh groups whose
\* members all have sample count 0; after j batches of the epoch every
\* loss-key and metric-key member has sample count j and holds values of
\* this epoch only; what train_epoch returns is smoothed over the batches of
\* its own epoch only; and the checkpoint dictionary has no key for the
\* smoothing state.
C17_SmoothingEpochScoped ==
    /\ [][(pc = "fit" /\ pc' = "trn") =>
            /\ trn_loss' = [k \in Range(loss_keys) |-> [n |-> 0, hist |-> <<>>]]
            /\ trn_acc' = [k \in Range(met_keys) |-> [n |-> 0, hist |-> <<>>]]]_vars
    /\ [](pc = "trn" =>
            /\ GroupAfter(trn_loss, loss_keys, batch_id)
            /\ GroupAfter(trn_acc, met_keys, batch_id))
    /\ [](pc \in {"val", "row"} =>
            /\ \A k \in Range(loss_keys) :
                  /\ train_loss[k].n = train_dl
                  /\ train_loss[k].smooth_of = [i \in 1..train_dl |-> TrnToken(k, i)]
            /\ \A k \in Range(met_keys) :
                  /\ train_acc[k].n = train_dl
                  /\ train_acc[k].smooth_of = [i \in 1..train_dl |-> TrnToken(k, i)])
    /\ [](SaveDict(CurrentLearner).keys =
            {"model_state_dict", "optimizer_state_dict", "scheduler_state_dict",
             "num_it", "num_epoch", "cfgtxt", "best_met"})

\* after the first batch of the second epoch the members have sample count
\* 1, while the first epoch had two batches
C17_Witness ==
    /\ pc = "trn" /\ num_epoch = 2 /\ batch_id = 1 /\ train_dl = 2
    /\ loss_keys = <<"L1">> /\ met_keys = <<"M1", "M2">>
    /\ trn_loss["L1"].n = 1 /\ trn_acc["M2"].n = 1
    /\ train_loss["L1"].n = 2

====
